---- MODULE Spec2Model ----
(***************************************************************************)
(* Round-robin tournament predictor: chess-predictor/rr.py                 *)
(* (RoundRobinTournament) and chess-predictor/chess.py                     *)
(* (generate_game_results).                                                *)
(*                                                                         *)
(* Representation.  Game results 0, 0.5 and 1 are held as the half-points  *)
(* 0, 1 and 2, so "1 - result" is "2 - result" and a score is a number of  *)
(* half-points (all of these are exact in binary floating point).  Player  *)
(* ids are the list indices 0 .. len(names)-1.  A Python dict is a         *)
(* function whose DOMAIN is the set of keys present.  An odds value k/n is *)
(* held as the number k of 1/n credits, next to n.  Probabilities and      *)
(* uniform draws of the sampler are multiples of 1/Den.                    *)
(*                                                                         *)
(* The ratings only enter through the win/draw probabilities of            *)
(* get_results; both and the loss probability are strictly positive for    *)
(* finite ratings, so every sampled cell may be any of the three results.  *)
(***************************************************************************)
EXTENDS Integers, Sequences, FiniteSets, TLC

\* ------------------------------------------------------------------ bounds
MaxNGames  == 3    \* n_games in 1 .. MaxNGames
MaxSubmit  == 2    \* game records handed to add_games in one run
MaxCells   == 3    \* simulated_results and sampler grids of at most this many cells
Den        == 2    \* sampler probabilities and draws are multiples of 1/Den

Rosters == {<<"A", "B">>, <<"A", "B", "C">>}
Results == {0, 1, 2}
EmptyMap == <<>>

VARIABLES
    names,                \* self.names
    n_games,              \* self.n_games
    completed_games,      \* self.completed_games: pair -> list of results
    submitted,            \* history: pair (a < b) -> every result submitted for it
    n_added,              \* history: number of game records submitted so far
    pc,                   \* "idle", or "trials" inside the loop of get_odds
    call_n,               \* get_odds: n
    games_to_play,        \* get_odds: games_to_play
    i,                    \* get_odds: number of trials done
    odds,                 \* get_odds: odds, as credits of 1/n
    temp_completed_games, \* get_odds: the universe of the last trial
    ret,                  \* outcome of the last method call
    win_draw_probs,       \* generate_game_results: win_draw_probs
    reps,                 \* generate_game_results: n
    random_nums,          \* generate_game_results: random_nums
    result,               \* generate_game_results: result
    spc                   \* sampler: "ready" before the call, "done" after it

tvars == <<names, n_games, completed_games, submitted, n_added, pc, call_n,
           games_to_play, i, odds, temp_completed_games, ret>>
svars == <<win_draw_probs, reps, random_nums, result, spc>>
vars == <<names, n_games, completed_games, submitted, n_added, pc, call_n,
          games_to_play, i, odds, temp_completed_games, ret,
          win_draw_probs, reps, random_nums, result, spc>>

\* ----------------------------------------------------------------- helpers
Repeat(x, k) == [j \in 1..k |-> x]

RECURSIVE SumOver(_, _)
SumOver(f, S) ==
    IF S = {} THEN 0
    ELSE LET x == CHOOSE y \in S : TRUE IN f[x] + SumOver(f, S \ {x})

NumPlayers == Len(names)
Ids == 0 .. (NumPlayers - 1)
NameOf(id) == names[id + 1]
NameSet == {names[k] : k \in 1..Len(names)}

\* ------------------------------------------------------------- add_games
StoredResultNoFlip(id1, id2, res) == res

\* rr.py:17
StoredResult(id1, id2, res) == IF id1 < id2 THEN res ELSE 2 - res

\* rr.py:16
PairOf(id1, id2) == IF id1 < id2 THEN <<id1, id2>> ELSE <<id2, id1>>

HasRoomOffByOne(len, ng) == len <= ng

\* rr.py:20
HasRoom(len, ng) == len < ng

\* rr.py:15-21, the body of the loop
AddGame(cg, ng, game) ==
    LET pair == PairOf(game[1], game[2])
        res  == StoredResult(game[1], game[2], game[3])
        cg1  == IF pair \in DOMAIN cg THEN cg ELSE cg @@ (pair :> <<>>)
    IN  IF HasRoom(Len(cg1[pair]), ng)
        THEN [cg1 EXCEPT ![pair] = Append(@, res)]
        ELSE cg1

\* rr.py:13-21
RECURSIVE add_games(_, _, _)
add_games(cg, ng, games) ==
    IF games = <<>> THEN cg
    ELSE add_games(AddGame(cg, ng, Head(games)), ng, Tail(games))

\* --------------------------------------------- calculate_standings, get_winners
ComplementSame(res) == res

\* rr.py:34, the opponent's share "1 - result"
Complement(res) == 2 - res

\* rr.py:32-34, the inner loop over one pair's results
RECURSIVE FoldResults(_, _, _)
FoldResults(standings, game, results) ==
    IF results = <<>> THEN standings
    ELSE LET s1 == [standings EXCEPT ![NameOf(game[1])] = @ + Head(results)]
             s2 == [s1 EXCEPT ![NameOf(game[2])] = @ + Complement(Head(results))]
         IN  FoldResults(s2, game, Tail(results))

\* rr.py:31-34, the outer loop over the items of the dict
RECURSIVE FoldGames(_, _, _)
FoldGames(standings, cg, keys) ==
    IF keys = {} THEN standings
    ELSE LET game == CHOOSE k \in keys : TRUE
         IN  FoldGames(FoldResults(standings, game, cg[game]), cg, keys \ {game})

\* rr.py:23-35
calculate_standings(cg) ==
    FoldGames([name \in NameSet |-> 0], cg, DOMAIN cg)

\* rr.py:42 and rr.py:70
MaxScore(standings) ==
    CHOOSE m \in {standings[name] : name \in DOMAIN standings} :
        \A name \in DOMAIN standings : standings[name] <= m

\* rr.py:43 and rr.py:71
WinnersOf(standings) ==
    {name \in DOMAIN standings : standings[name] = MaxScore(standings)}

\* rr.py:37-44
get_winners(cg) == WinnersOf(calculate_standings(cg))

\* ---------------------------------------------------------------- get_odds
NeededIgnoringStored(cg, pair, ng) == ng

\* rr.py:51-54, how many entries of a pair go on games_to_play
Needed(cg, pair, ng) ==
    IF pair \notin DOMAIN cg THEN ng
    ELSE IF Len(cg[pair]) < ng THEN ng - Len(cg[pair])
    ELSE 0

\* rr.py:47-54
RECURSIVE GamesToPlay(_, _, _, _, _)
GamesToPlay(cg, ng, np, id1, id2) ==
    IF id1 >= np THEN <<>>
    ELSE IF id2 >= np THEN GamesToPlay(cg, ng, np, id1 + 1, id1 + 2)
    ELSE Repeat(<<id1, id2>>, Needed(cg, <<id1, id2>>, ng))
         \o GamesToPlay(cg, ng, np, id1, id2 + 1)

\* A list object of a universe: its items, and whether it is the very list
\* object that self.completed_games holds under the same key.
AliasGames(cg) == [k \in DOMAIN cg |-> [shared |-> TRUE, items |-> cg[k]]]

\* rr.py:65, a new list per key
CopyGames(cg) == [k \in DOMAIN cg |-> [shared |-> FALSE, items |-> cg[k]]]

\* rr.py:68, setdefault(game, []).append(result); an append to a shared list
\* object is seen through self.completed_games too
AppendResult(st, game, res) ==
    LET t1 == IF game \in DOMAIN st.temp THEN st.temp
              ELSE st.temp @@ (game :> [shared |-> FALSE, items |-> <<>>])
    IN  [temp |-> [t1 EXCEPT ![game].items = Append(@, res)],
         real |-> IF t1[game].shared
                  THEN [st.real EXCEPT ![game] = Append(@, res)]
                  ELSE st.real]

\* rr.py:66-68
RECURSIVE PlayGames(_, _, _, _)
PlayGames(st, games, column, j) ==
    IF j > Len(games) THEN st
    ELSE PlayGames(AppendResult(st, games[j], column[j]), games, column, j + 1)

\* rr.py:65-68, one universe: the copy, then the sampled column appended
Universe(cg, games, column) ==
    PlayGames([temp |-> CopyGames(cg), real |-> cg], games, column, 1)

ListsOf(temp) == [k \in DOMAIN temp |-> temp[k].items]

\* rr.py:72-73
Credit(od, winners) ==
    [name \in DOMAIN od |-> IF name \in winners THEN od[name] + 1 ELSE od[name]]

\* --------------------------------------------------- generate_game_results
ExceedsOrEquals(u, t) == u >= t

\* chess.py:26, random_nums > cum_probs
Exceeds(u, t) == u > t

\* chess.py:14
LoseProb(wd) == Den - (wd[1] + wd[2])

\* chess.py:17 and chess.py:23, one row of cum_probs
CumProbs(wd) == <<wd[1], wd[1] + wd[2], wd[1] + wd[2] + LoseProb(wd)>>

\* chess.py:26, one cell of outcomes
Outcome(u, wd) == Cardinality({t \in 1..3 : Exceeds(u, CumProbs(wd)[t])})

\* chess.py:29-30, outcome_map[outcomes]; an index of 3 is out of range
OutcomeMap(k) == IF k \in 0..2 THEN <<2, 1, 0>>[k + 1] ELSE "IndexError"

\* chess.py:5-32
generate_game_results(wdp, n, rn) ==
    [g \in 1..Len(wdp) |-> [c \in 1..n |-> OutcomeMap(Outcome(rn[g][c], wdp[g]))]]

\* ------------------------------------------------------------------ state
NoRet ==
    [op |-> "none", kind |-> "none", n |-> 0, pending |-> 0, odds |-> EmptyMap,
     standings |-> EmptyMap, winners |-> {}, flipped |-> FALSE]

\* rr.py:7-11
Init ==
    /\ names \in Rosters
    /\ n_games \in 1..MaxNGames
    /\ completed_games = EmptyMap
    /\ submitted = EmptyMap
    /\ n_added = 0
    /\ pc = "idle"
    /\ call_n = 0
    /\ games_to_play = <<>>
    /\ i = 0
    /\ odds = EmptyMap
    /\ temp_completed_games = EmptyMap
    /\ ret = NoRet
    /\ win_draw_probs = <<>>
    /\ reps = 0
    /\ random_nums = <<>>
    /\ result = <<>>
    /\ spc = "off"

\* History of the records submitted for each pair of two different players,
\* each seen from the lower-indexed player.
RecordGame(sub, game) ==
    IF game[1] = game[2] THEN sub
    ELSE LET lo   == IF game[1] < game[2] THEN game[1] ELSE game[2]
             hi   == IF game[1] < game[2] THEN game[2] ELSE game[1]
             seen == IF game[1] = lo THEN game[3] ELSE 2 - game[3]
             s1   == IF <<lo, hi>> \in DOMAIN sub THEN sub
                     ELSE sub @@ (<<lo, hi>> :> <<>>)
         IN  [s1 EXCEPT ![<<lo, hi>>] = Append(@, seen)]

\* rr.py:13, add_games(games) is entered; the list is read one record at a
\* time by the loop
AddGamesStart ==
    /\ pc = "idle"
    /\ pc' = "adding"
    /\ ret' = [NoRet EXCEPT !.op = "add_games"]
    /\ UNCHANGED <<names, n_games, completed_games, submitted, n_added, call_n,
                   games_to_play, i, odds, temp_completed_games>>
    /\ UNCHANGED svars

\* rr.py:14-21, one pass of the loop, on any record (id1, id2, result)
AddGamesStep ==
    /\ pc = "adding"
    /\ n_added < MaxSubmit
    /\ \E game \in Ids \X Ids \X Results :
        /\ completed_games' = AddGame(completed_games, n_games, game)
        /\ submitted' = RecordGame(submitted, game)
        /\ ret' = [ret EXCEPT !.flipped = @ \/ game[1] > game[2]]
    /\ n_added' = n_added + 1
    /\ UNCHANGED <<names, n_games, pc, call_n, games_to_play, i, odds,
                   temp_completed_games>>
    /\ UNCHANGED svars

\* rr.py:14, the list is exhausted and add_games returns
AddGamesReturn ==
    /\ pc = "adding"
    /\ pc' = "idle"
    /\ UNCHANGED <<names, n_games, completed_games, submitted, n_added, call_n,
                   games_to_play, i, odds, temp_completed_games, ret>>
    /\ UNCHANGED svars

\* rr.py:23-35, calculate_standings()
StandingsCall ==
    /\ pc = "idle"
    /\ ret' = [NoRet EXCEPT !.op = "calculate_standings", !.kind = "value",
                            !.standings = calculate_standings(completed_games)]
    /\ UNCHANGED <<names, n_games, completed_games, submitted, n_added, pc,
                   call_n, games_to_play, i, odds, temp_completed_games>>
    /\ UNCHANGED svars

\* rr.py:37-44, get_winners()
WinnersCall ==
    /\ pc = "idle"
    /\ ret' = [NoRet EXCEPT !.op = "get_winners", !.kind = "value",
                            !.winners = get_winners(completed_games)]
    /\ UNCHANGED <<names, n_games, completed_games, submitted, n_added, pc,
                   call_n, games_to_play, i, odds, temp_completed_games>>
    /\ UNCHANGED svars

\* rr.py:46-58, get_odds(n) with nothing left to play: line 58 adds two
\* dicts, which raises TypeError
GetOddsNoPending ==
    /\ pc = "idle"
    /\ GamesToPlay(completed_games, n_games, NumPlayers, 0, 1) = <<>>
    /\ \E n \in 0..MaxCells :
        ret' = [NoRet EXCEPT !.op = "get_odds", !.kind = "TypeError", !.n = n,
                             !.winners = get_winners(completed_games)]
    /\ UNCHANGED <<names, n_games, completed_games, submitted, n_added, pc,
                   call_n, games_to_play, i, odds, temp_completed_games>>
    /\ UNCHANGED svars

\* rr.py:46-62, get_odds(n) up to the loop over the trials
GetOddsStart ==
    /\ pc = "idle"
    /\ LET games == GamesToPlay(completed_games, n_games, NumPlayers, 0, 1)
       IN  /\ games # <<>>
           /\ games_to_play' = games
           /\ \E n \in 0..MaxCells :
                /\ Len(games) * n <= MaxCells
                /\ call_n' = n
    /\ pc' = "trials"
    /\ i' = 0
    /\ odds' = [name \in NameSet |-> 0]
    /\ temp_completed_games' = EmptyMap
    /\ ret' = NoRet
    /\ UNCHANGED <<names, n_games, completed_games, submitted, n_added>>
    /\ UNCHANGED svars

\* rr.py:64-73, one pass of the loop: column i of simulated_results is any
\* assignment of results to the games to play
Trial ==
    /\ pc = "trials"
    /\ i < call_n
    /\ \E column \in [1..Len(games_to_play) -> Results] :
        LET u == Universe(completed_games, games_to_play, column)
            standings == calculate_standings(ListsOf(u.temp))
        IN  /\ completed_games' = u.real
            /\ temp_completed_games' = ListsOf(u.temp)
            /\ odds' = Credit(odds, WinnersOf(standings))
    /\ i' = i + 1
    /\ UNCHANGED <<names, n_games, submitted, n_added, pc, call_n,
                   games_to_play, ret>>
    /\ UNCHANGED svars

\* rr.py:75
GetOddsReturn ==
    /\ pc = "trials"
    /\ i = call_n
    /\ ret' = [NoRet EXCEPT !.op = "get_odds", !.kind = "value", !.n = call_n,
                            !.pending = Len(games_to_play), !.odds = odds]
    /\ pc' = "idle"
    /\ call_n' = 0
    /\ games_to_play' = <<>>
    /\ i' = 0
    /\ odds' = EmptyMap
    /\ temp_completed_games' = EmptyMap
    /\ UNCHANGED <<names, n_games, completed_games, submitted, n_added>>
    /\ UNCHANGED svars

Next ==
    \/ AddGamesStart
    \/ AddGamesStep
    \/ AddGamesReturn
    \/ StandingsCall
    \/ WinnersCall
    \/ GetOddsNoPending
    \/ GetOddsStart
    \/ Trial
    \/ GetOddsReturn

Spec == Init /\ [][Next]_vars

\* ------------------------------------------- the sampler on its own inputs
ProbPairs == {wd \in (0..Den) \X (0..Den) : wd[1] + wd[2] <= Den}

SamplerInit ==
    /\ names = <<"A", "B">>
    /\ n_games = 1
    /\ completed_games = EmptyMap
    /\ submitted = EmptyMap
    /\ n_added = 0
    /\ pc = "idle"
    /\ call_n = 0
    /\ games_to_play = <<>>
    /\ i = 0
    /\ odds = EmptyMap
    /\ temp_completed_games = EmptyMap
    /\ ret = NoRet
    /\ \E g \in 0..MaxCells, n \in 1..MaxCells :
        /\ g * n <= MaxCells
        /\ win_draw_probs \in [1..g -> ProbPairs]
        /\ reps = n
    /\ random_nums = <<>>
    /\ result = <<>>
    /\ spc = "ready"

\* chess.py:5-32, with chess.py:20 drawing any grid of uniform values in [0,1)
Generate ==
    /\ spc = "ready"
    /\ \E rn \in [1..Len(win_draw_probs) -> [1..reps -> 0..(Den - 1)]] :
        /\ random_nums' = rn
        /\ result' = generate_game_results(win_draw_probs, reps, rn)
    /\ spc' = "done"
    /\ UNCHANGED <<win_draw_probs, reps>>
    /\ UNCHANGED tvars

SamplerNext == Generate

SpecSampler == SamplerInit /\ [][SamplerNext]_vars

\* ================================================================== claims
StoredOf(cg, pair) == IF pair \in DOMAIN cg THEN cg[pair] ELSE <<>>
CountOf(games, pair) == Cardinality({j \in 1..Len(games) : games[j] = pair})
Pending == GamesToPlay(completed_games, n_games, NumPlayers, 0, 1)
AfterTrial == pc = "trials" /\ i >= 1

RECURSIVE TotalResults(_, _)
TotalResults(cg, keys) ==
    IF keys = {} THEN 0
    ELSE LET k == CHOOSE x \in keys : TRUE
         IN  Len(cg[k]) + TotalResults(cg, keys \ {k})

\* C1: get_odds on a tournament with no pending game returns a mapping over
\* all names that gives each of the k score-leaders 1/k and everyone else 0.
C1_NoPendingPointDistribution ==
    (ret.op = "get_odds" /\ Pending = <<>>) =>
        /\ ret.kind = "value"
        /\ DOMAIN ret.odds = NameSet
        /\ \A name \in NameSet :
            IF name \in get_winners(completed_games)
            THEN ret.odds[name] * Cardinality(get_winners(completed_games)) = ret.n
            ELSE ret.odds[name] = 0

\* C2: for n >= 1 and at least one pending game, the odds returned by
\* get_odds(n) sum to 1 (n credits of 1/n in all) and each lies in [0,1].
C2_OddsSumToOne ==
    (ret.op = "get_odds" /\ ret.kind = "value" /\ ret.n >= 1) =>
        /\ SumOver(ret.odds, NameSet) = ret.n
        /\ \A name \in NameSet : ret.odds[name] \in 0..ret.n

\* C3: what is stored for a pair a < b is exactly the first min(k, n_games) of
\* the k results submitted for it, seen from a, in submission order.
C3_StoredIsPrefixOfSubmitted ==
    \A a \in Ids, b \in Ids :
        a < b =>
            LET sub == StoredOf(submitted, <<a, b>>)
                cap == IF Len(sub) < n_games THEN Len(sub) ELSE n_games
            IN  /\ StoredOf(completed_games, <<a, b>>) = SubSeq(sub, 1, cap)
                /\ (<<a, b>> \in DOMAIN completed_games) = (sub # <<>>)

C3_Witness ==
    \E a \in Ids, b \in Ids :
        /\ a < b
        /\ Len(StoredOf(submitted, <<a, b>>)) > n_games
        /\ Len(StoredOf(completed_games, <<a, b>>)) = n_games

\* C4: whenever add_games can be called, for a < b, add_games([(b, a, r)])
\* gives the same Completed Games (hence the same standings) as
\* add_games([(a, b, 1 - r)]); when the pair has room, 1 - r is stored under
\* (a, b), b is credited r and a is credited 1 - r.
C4_ReversedInputEquivalent ==
    pc = "idle" =>
        LET before == calculate_standings(completed_games)
        IN  \A a \in Ids, b \in Ids, r \in Results :
                a < b =>
                    LET rev   == add_games(completed_games, n_games, << <<b, a, r>> >>)
                        fwd   == add_games(completed_games, n_games, << <<a, b, 2 - r>> >>)
                        old   == StoredOf(completed_games, <<a, b>>)
                        after == calculate_standings(rev)
                    IN  /\ rev = fwd
                        /\ Len(old) < n_games =>
                            /\ rev[<<a, b>>] = Append(old, 2 - r)
                            /\ after[NameOf(b)] = before[NameOf(b)] + r
                            /\ after[NameOf(a)] = before[NameOf(a)] + (2 - r)

C4_Witness ==
    /\ pc = "idle"
    /\ ret.op = "add_games"
    /\ ret.flipped
    /\ n_added = 1
    /\ \E k \in DOMAIN completed_games : k[1] < k[2] /\ completed_games[k] = <<0>>

\* C5: get_odds, calculate_standings and get_winners leave self.completed_games
\* as it was, and the universe of a trial holds the stored results plus that
\* trial's own sampled results only.
ReadOnlyStep ==
    \/ pc = "trials"
    \/ pc' = "trials"
    \/ ret'.op \in {"calculate_standings", "get_winners", "get_odds"}

OwnResultsOnly ==
    \A k \in DOMAIN temp_completed_games :
        /\ Len(temp_completed_games[k]) =
               Len(StoredOf(completed_games, k)) + CountOf(games_to_play, k)
        /\ SubSeq(temp_completed_games[k], 1, Len(StoredOf(completed_games, k)))
               = StoredOf(completed_games, k)

C5_ReadersNeverMutate ==
    [][ReadOnlyStep =>
          /\ completed_games' = completed_games
          /\ (pc' = "trials" /\ i' >= 1) => OwnResultsOnly']_vars

C5_Witness ==
    /\ pc = "trials"
    /\ i = 2
    /\ completed_games # EmptyMap
    /\ \E k \in DOMAIN temp_completed_games :
        StoredOf(completed_games, k) # temp_completed_games[k]

\* C6: get_odds(0) never returns an odds mapping: it fails.
C6_ZeroTrialsFail ==
    (ret.op = "get_odds" /\ ret.n = 0) => ret.kind # "value"

\* C7: each cell of the sampler's result is decided by how many of the
\* thresholds [winProb, winProb + drawProb, 1] the cell's draw strictly
\* exceeds (0: win, 1: draw, 2: loss, never 3 when winProb + drawProb <= 1);
\* the result has shape (numGames, n); winProb = 1, drawProb = 0 always wins.
C7_SamplerCountsThresholds ==
    spc = "done" =>
        /\ Len(result) = Len(win_draw_probs)
        /\ \A g \in 1..Len(win_draw_probs) :
            /\ Len(result[g]) = reps
            /\ \A c \in 1..reps :
                LET u == random_nums[g][c]
                    w == win_draw_probs[g][1]
                    d == win_draw_probs[g][2]
                    k == (IF u > w THEN 1 ELSE 0) + (IF u > w + d THEN 1 ELSE 0)
                         + (IF u > Den THEN 1 ELSE 0)
                IN  w + d <= Den =>
                        /\ k # 3
                        /\ result[g][c] \in Results
                        /\ (k = 0) = (result[g][c] = 2)
                        /\ (k = 1) = (result[g][c] = 1)
                        /\ (k = 2) = (result[g][c] = 0)
                        /\ (w = Den /\ d = 0) => result[g][c] = 2

C7_Witness ==
    /\ spc = "done"
    /\ reps >= 2
    /\ \E g \in 1..Len(win_draw_probs) : win_draw_probs[g] = <<Den, 0>>

\* C8: games_to_play holds each pair a < b exactly n_games - completedCount
\* times and nothing else, and every universe holds exactly n_games results
\* for each such pair, the stored ones first and in their order.
C8_GamesToPlayFillsEveryPair ==
    pc = "trials" =>
        /\ \A j \in 1..Len(games_to_play) :
            /\ games_to_play[j][1] \in Ids
            /\ games_to_play[j][2] \in Ids
            /\ games_to_play[j][1] < games_to_play[j][2]
        /\ \A a \in Ids, b \in Ids :
            a < b =>
                LET stored == StoredOf(completed_games, <<a, b>>)
                IN  /\ CountOf(games_to_play, <<a, b>>) = n_games - Len(stored)
                    /\ i >= 1 =>
                        /\ <<a, b>> \in DOMAIN temp_completed_games
                        /\ Len(temp_completed_games[<<a, b>>]) = n_games
                        /\ SubSeq(temp_completed_games[<<a, b>>], 1, Len(stored))
                               = stored

C8_Witness ==
    /\ AfterTrial
    /\ Len(games_to_play) >= 2
    /\ \E a \in Ids, b \in Ids :
        /\ a < b
        /\ Len(StoredOf(completed_games, <<a, b>>)) >= 1
        /\ Len(StoredOf(completed_games, <<a, b>>)) < n_games

\* C9: every key of Completed Games is a pair (a, b) of two different players
\* with a < b.
C9_KeysAreCanonicalPairs ==
    \A k \in DOMAIN completed_games :
        k[1] \in Ids /\ k[2] \in Ids /\ k[1] < k[2]

\* C10: the scores of calculate_standings, over the live map or a universe,
\* cover every name, are never negative and sum to the number of stored
\* results (two half-points each).
Conserved(cg, standings) ==
    /\ DOMAIN standings = NameSet
    /\ \A name \in NameSet : standings[name] >= 0
    /\ SumOver(standings, NameSet) = 2 * TotalResults(cg, DOMAIN cg)

C10_PointsConserved ==
    /\ Conserved(completed_games, calculate_standings(completed_games))
    /\ AfterTrial =>
           Conserved(temp_completed_games, calculate_standings(temp_completed_games))
    /\ ret.op = "calculate_standings" =>
           Conserved(completed_games, ret.standings)

C10_Witness ==
    /\ ret.op = "calculate_standings"
    /\ TotalResults(completed_games, DOMAIN completed_games) = 2
    /\ \E name \in NameSet : ret.standings[name] = 0
    /\ \E name \in NameSet : ret.standings[name] = 1

====
